---- MODULE Spec2Model ----
(***************************************************************************)
(* Sub-tomogram extraction (_extract_Config) and half-set averaging        *)
(* (average_extracted_particles) of parakeet.analyse._extract.             *)
(*                                                                         *)
(* Three specifications share the variables:                               *)
(*   SpecBox      the extraction-box computation over a wide range of      *)
(*                particle sizes, atomic extents and voxel sizes;          *)
(*   SpecExtract  one extraction run: box, sort, store creation, the       *)
(*                worker pool and the coordinator loop;                    *)
(*   SpecAverage  two independent processes running                        *)
(*                average_extracted_particles on the same particle store.  *)
(*                                                                         *)
(* Numbers are integers: positions, extents and voxel sizes are whole      *)
(* physical units, voxel values are whole numbers, and a float division    *)
(* is kept as an exact fraction in lowest terms.                           *)
(***************************************************************************)
EXTENDS Integers, Sequences, FiniteSets, TLC

VARIABLES
    \* ---- inputs of _extract_Config
    particle_size,   \* particle_size argument (0: derive from the atoms)
    atoms,           \* min / max of atoms.data per axis
    voxel_size,      \* tomo_file.voxel_size as <<x, y, z>>
    centre,          \* sample.centre
    positions,       \* particle positions <<x, y, z>> (rebound by the sort)
    orientations,    \* particle orientations (opaque labels, rebound by the sort)
    \* ---- state of one extraction run
    pc,              \* position of the coordinator
    error,           \* the exception that left _extract_Config, or "none"
    half_length,
    shape,
    file_created,    \* h5py.File(extract_file, "w") has run
    data_handle,     \* the "data" dataset: a sequence of cubes
    num,             \* the coordinator's counter
    results,         \* results of finished tasks, in completion order
    taken,           \* how many of them lazy_map has yielded to the coordinator
    \* ---- average_extracted_particles, one entry per process
    store,           \* the particles file read by averaging: a sequence of cubes
    num_particles,   \* the num_particles argument
    random_state,    \* Python's random module state (seeded at import)
    np_random_state, \* numpy's global generator state
    apc,             \* position of each averaging process
    aerror,          \* the exception that left the call, or "none"
    n_request,       \* num_particles after defaulting
    half_num_particles,
    indices,         \* <<half 1 indices, half 2 indices>> (0-based store indices)
    half,            \* the two accumulators
    hnum,            \* num[0], num[1]
    half1_file,      \* contents of half1_filename, or NoFile
    half2_file       \* contents of half2_filename, or NoFile

extract_inputs == <<particle_size, atoms, voxel_size, centre>>
extract_vars == <<positions, orientations, pc, error, half_length, shape,
                  file_created, data_handle, num, results, taken>>
average_inputs == <<store, num_particles>>
average_vars == <<random_state, np_random_state, apc, aerror, n_request,
                  half_num_particles, indices, half, hnum, half1_file, half2_file>>
vars == <<extract_inputs, extract_vars, average_inputs, average_vars>>

(***************************************************************************)
(* Bounds of the model                                                     *)
(***************************************************************************)
MaxParticles == 4
MaxParticleSize == 3
MaxExtent == 2
MaxVoxelSize == 2
MaxStore == 4
MaxEntropy == 3

(***************************************************************************)
(* Program constants                                                       *)
(***************************************************************************)
max_workers == 4

\* tomogram.shape of the reconstruction read by the run (numpy axis order).
TomogramShape == <<6, 2, 2>>

\* tomogram[j, k, i]: every voxel of the volume holds a distinct value.
Tomogram(j, k, i) == 1 + i + TomogramShape[3] * (k + TomogramShape[2] * j)

\* The positions a particle of the sample may have (physical units, relative
\* to the sample centre <<0, 0, 0>>).
PositionSet == { <<0, 1, 0>>, <<0, -2, 0>>, <<0, 3, 0>> }

\* the contents of an output file that does not exist: no data
NoFile == <<>>

\* the num_particles argument: None, or an integer
None == [is_none |-> TRUE, value |-> 0]

Given(n) == [is_none |-> FALSE, value |-> n]

(***************************************************************************)
(* Box size                                                                *)
(***************************************************************************)
\* int(ceil(sqrt(n / d))) for integers n >= 0, d > 0
CeilSqrt(n, d) ==
    CHOOSE k \in 0..(n + 1) :
        /\ k * k * d >= n
        /\ \A j \in 0..(k - 1) : j * j * d < n

\* half_length of _extract_Config
HalfLength(psize, a, vs) ==
    IF psize = 0
    THEN LET \* 2 * (xmin - xc) = 2 * xmin - (xmax + xmin), and so on
             tx == (2 * a.xmin - (a.xmax + a.xmin)) * (2 * a.xmin - (a.xmax + a.xmin))
             ty == (2 * a.ymin - (a.ymax + a.ymin)) * (2 * a.ymin - (a.ymax + a.ymin))
             tz == (2 * a.zmin - (a.zmax + a.zmin)) * (2 * a.zmin - (a.zmax + a.zmin))
             vx == vs[1] * vs[1]
             vy == vs[2] * vs[2]
             vz == vs[3] * vs[3]
         IN  CeilSqrt(tx * vy * vz + ty * vx * vz + tz * vx * vy,
                      4 * vx * vy * vz) + 1
    ELSE psize \div 2

\* size = np.array(tomogram.shape)[[2, 0, 1]] * voxel_size
Size(vs) == << TomogramShape[3] * vs[1],
               TomogramShape[1] * vs[2],
               TomogramShape[2] * vs[3] >>

(***************************************************************************)
(* Sorting the particles by y                                              *)
(***************************************************************************)
RECURSIVE InsertByY(_, _)
\* insert pair p = <<position, orientation>> after every pair whose y is <= its y
InsertByY(s, p) ==
    IF s = <<>> THEN <<p>>
    ELSE IF Head(s)[1][2] <= p[1][2]
         THEN <<Head(s)>> \o InsertByY(Tail(s), p)
         ELSE <<p>> \o s

RECURSIVE SortByY(_)
\* sorted(zip(positions, orientations), key=lambda x: x[0][1]): stable
SortByY(pairs) ==
    IF pairs = <<>> THEN <<>>
    ELSE InsertByY(SortByY(SubSeq(pairs, 1, Len(pairs) - 1)), pairs[Len(pairs)])

Zip(ps, os) == [k \in 1..Len(ps) |-> <<ps[k], os[k]>>]

(***************************************************************************)
(* One extraction task                                                     *)
(***************************************************************************)
Voxels(length) == (0..(length - 1)) \X (0..(length - 1)) \X (0..(length - 1))

ZeroCube(shp) == [v \in (0..(shp[1] - 1)) \X (0..(shp[2] - 1)) \X (0..(shp[3] - 1)) |-> 0]

\* CoordinateMapper: the voxel holding the particle centre, <<x, y, z>>
VoxelCentre(position, c, size, vs) ==
    [a \in 1..3 |-> (2 * (position[a] - c[a]) + size[a]) \div (2 * vs[a])]

\* whether [centre - half_length, centre + half_length) lies in the volume
\* on every axis; array axes are (y, z, x)
InBounds(x, hl) ==
    /\ x[1] - hl >= 0 /\ x[1] + hl <= TomogramShape[3]
    /\ x[2] - hl >= 0 /\ x[2] + hl <= TomogramShape[1]
    /\ x[3] - hl >= 0 /\ x[3] + hl <= TomogramShape[2]

\* VolumeSampler: the window copied out of the volume, no interpolation
SubTomo(x, hl) ==
    [v \in Voxels(2 * hl) |->
        Tomogram(x[2] - hl + v[1], x[3] - hl + v[2], x[1] - hl + v[3])]

\* the task of particle index (1-based position in the sorted list)
ProcessSubTomo(index, position, c, size, hl, vs) ==
    LET x == VoxelCentre(position, c, size, vs)
    IN  IF InBounds(x, hl)
        THEN [index |-> index, ok |-> TRUE, data |-> SubTomo(x, hl), error |-> "none"]
        ELSE [index |-> index, ok |-> FALSE, data |-> <<>>, error |-> "OutOfBounds"]

(***************************************************************************)
(* The particle store                                                      *)
(***************************************************************************)
\* data_handle.resize(n, axis=0): new slots hold the fill value
Resize(d, n, shp) == [k \in 1..n |-> IF k <= Len(d) THEN d[k] ELSE ZeroCube(shp)]

StoreParticle_First(d, n, cube, shp) == [Resize(d, n + 1, shp) EXCEPT ![1] = cube]

StoreParticle_Grow2(d, n, cube, shp) == [Resize(d, n + 2, shp) EXCEPT ![n + 1] = cube]

\* data_handle.resize(num + 1, axis=0); data_handle[num, :, :, :] = data
StoreParticle(d, n, cube, shp) == [Resize(d, n + 1, shp) EXCEPT ![n + 1] = cube]

(***************************************************************************)
(* Extraction: the initial states                                          *)
(***************************************************************************)
Atoms(dx, dy, dz) ==
    [xmin |-> 0, xmax |-> dx, ymin |-> 0, ymax |-> dy, zmin |-> 0, zmax |-> dz]

AverageIdle ==
    /\ store = <<>>
    /\ num_particles = None
    /\ random_state = <<>>
    /\ np_random_state = <<>>
    /\ apc = <<>>
    /\ aerror = <<>>
    /\ n_request = <<>>
    /\ half_num_particles = <<>>
    /\ indices = <<>>
    /\ half = <<>>
    /\ hnum = <<>>
    /\ half1_file = NoFile
    /\ half2_file = NoFile

ExtractIdle ==
    /\ pc = "start"
    /\ error = "none"
    /\ half_length = 0
    /\ shape = <<0, 0, 0>>
    /\ file_created = FALSE
    /\ data_handle = <<>>
    /\ num = 0
    /\ results = <<>>
    /\ taken = 0

InitBox ==
    /\ particle_size \in 0..MaxParticleSize
    /\ \E dx, dy, dz \in 0..MaxExtent : atoms = Atoms(dx, dy, dz)
    /\ \E v \in 1..MaxVoxelSize : voxel_size = <<v, v, v>>
    /\ centre = <<0, 0, 0>>
    /\ positions = <<>>
    /\ orientations = <<>>
    /\ ExtractIdle
    /\ AverageIdle

InitExtract ==
    /\ particle_size \in {0, 1}
    /\ atoms = Atoms(0, 0, 0)
    /\ voxel_size = <<1, 1, 1>>
    /\ centre = <<0, 0, 0>>
    /\ \E n \in 0..MaxParticles :
          /\ positions \in [1..n -> PositionSet]
          /\ orientations = [k \in 1..n |-> k]
    /\ ExtractIdle
    /\ AverageIdle

(***************************************************************************)
(* Extraction: the actions                                                 *)
(***************************************************************************)
\* the box of the species
ExtractBox ==
    /\ pc = "start"
    /\ half_length' = HalfLength(particle_size, atoms, voxel_size)
    /\ shape' = << 2 * half_length', 2 * half_length', 2 * half_length' >>
    /\ num' = 0
    /\ pc' = "sort"
    /\ UNCHANGED <<positions, orientations, error, file_created, data_handle,
                   results, taken>>
    /\ UNCHANGED <<extract_inputs, average_inputs, average_vars>>

\* the sort cannot unpack an empty list of particles: ValueError
ExtractSortEmpty ==
    /\ pc = "sort"
    /\ Len(positions) = 0
    /\ pc' = "failed"
    /\ error' = "ValueError"
    /\ UNCHANGED <<positions, orientations, half_length, shape, file_created,
                   data_handle, num, results, taken>>
    /\ UNCHANGED <<extract_inputs, average_inputs, average_vars>>

\* sort by y, then create the particles file with an empty dataset
ExtractCreate ==
    /\ pc = "sort"
    /\ Len(positions) > 0
    /\ LET sorted == SortByY(Zip(positions, orientations))
       IN  /\ positions' = [k \in 1..Len(sorted) |-> sorted[k][1]]
           /\ orientations' = [k \in 1..Len(sorted) |-> sorted[k][2]]
    /\ file_created' = TRUE
    /\ data_handle' = <<>>
    /\ pc' = "loop"
    /\ UNCHANGED <<error, half_length, shape, num, results, taken>>
    /\ UNCHANGED <<extract_inputs, average_inputs, average_vars>>

Finished == { results[k].index : k \in 1..Len(results) }

\* a worker of the pool finishes the task of particle i; the tasks in flight
\* when the coordinator leaves the loop still finish while the pool shuts down
TaskComplete(i) ==
    /\ pc \in {"loop", "failed"}
    /\ file_created
    /\ i \in 1..Len(positions)
    /\ i \notin Finished
    /\ Cardinality({ j \in 1..(i - 1) : j \notin Finished }) < max_workers
    /\ results' = Append(results,
                         ProcessSubTomo(i, positions[i], centre, Size(voxel_size),
                                        half_length, voxel_size))
    /\ UNCHANGED <<positions, orientations, pc, error, half_length, shape,
                   file_created, data_handle, num, taken>>
    /\ UNCHANGED <<extract_inputs, average_inputs, average_vars>>

CoordinatorSkip ==
    /\ pc = "loop"
    /\ taken < Len(results)
    /\ ~ results[taken + 1].ok
    /\ taken' = taken + 1
    /\ UNCHANGED <<positions, orientations, pc, error, half_length, shape,
                   file_created, data_handle, num, results>>
    /\ UNCHANGED <<extract_inputs, average_inputs, average_vars>>

CoordinatorClamp ==
    /\ pc = "loop"
    /\ taken < Len(results)
    /\ ~ results[taken + 1].ok
    /\ taken' = taken + 1
    /\ data_handle' = Resize(data_handle, num + 1, shape)
    /\ num' = num + 1
    /\ UNCHANGED <<positions, orientations, pc, error, half_length, shape,
                   file_created, results>>
    /\ UNCHANGED <<extract_inputs, average_inputs, average_vars>>

\* the next result is a task's exception: it leaves the loop, the with block
\* and _extract_Config
CoordinatorAbort ==
    /\ pc = "loop"
    /\ taken < Len(results)
    /\ ~ results[taken + 1].ok
    /\ taken' = taken + 1
    /\ pc' = "failed"
    /\ error' = results[taken + 1].error
    /\ UNCHANGED <<positions, orientations, half_length, shape, file_created,
                   data_handle, num, results>>
    /\ UNCHANGED <<extract_inputs, average_inputs, average_vars>>

\* the next result is a cube: add the particle to the file
CoordinatorAppend ==
    /\ pc = "loop"
    /\ taken < Len(results)
    /\ results[taken + 1].ok
    /\ taken' = taken + 1
    /\ data_handle' = StoreParticle(data_handle, num, results[taken + 1].data, shape)
    /\ num' = num + 1
    /\ UNCHANGED <<positions, orientations, pc, error, half_length, shape,
                   file_created, results>>
    /\ UNCHANGED <<extract_inputs, average_inputs, average_vars>>

\* every result was yielded: the loop and _extract_Config end
ExtractFinish ==
    /\ pc = "loop"
    /\ taken = Len(positions)
    /\ pc' = "done"
    /\ UNCHANGED <<positions, orientations, error, half_length, shape,
                   file_created, data_handle, num, results, taken>>
    /\ UNCHANGED <<extract_inputs, average_inputs, average_vars>>

NextBox == ExtractBox

NextExtract ==
    \/ ExtractBox
    \/ ExtractSortEmpty
    \/ ExtractCreate
    \/ \E i \in 1..MaxParticles : TaskComplete(i)
    \/ CoordinatorAppend
    \/ CoordinatorAbort
    \/ ExtractFinish

SpecBox == InitBox /\ [][NextBox]_vars

SpecExtract == InitExtract /\ [][NextExtract]_vars

(***************************************************************************)
(* Averaging: helpers                                                      *)
(***************************************************************************)
Procs == {1, 2}

\* data.shape[1:] of the particles file
StoreShape == <<2, 2, 2>>

StoreVoxels == DOMAIN ZeroCube(StoreShape)

\* cube i (0-based) of a particles file: filled with the constant i, or a
\* ramp that differs from voxel to voxel
StoreCube(i, fill) ==
    [v \in StoreVoxels |->
        IF fill = "constant" THEN i ELSE i * i + v[1] + 2 * v[2] + 4 * v[3]]

\* sequence s without its element at position k
Without(s, k) == SubSeq(s, 1, k - 1) \o SubSeq(s, k + 1, Len(s))

RECURSIVE Shuffle(_, _)
\* the permutation of pool that generator state st produces
Shuffle(pool, st) ==
    IF pool = <<>> THEN <<>>
    ELSE LET k == (st % Len(pool)) + 1
         IN  <<pool[k]>> \o Shuffle(Without(pool, k), st \div Len(pool))

Choice_WithReplacement(n, size, st) ==
    [k \in 1..size |-> (st + (k - 1) \div 2) % n]

\* np.random.choice(range(n), size=size, replace=False) under generator state st
Choice(n, size, st) == SubSeq(Shuffle([k \in 1..n |-> k - 1], st), 1, size)

\* [indices[:half_num_particles], indices[half_num_particles:]]
SplitHalves(ix, hn) == << SubSeq(ix, 1, hn), SubSeq(ix, hn + 1, Len(ix)) >>

RECURSIVE GCD(_, _)
GCD(a, b) == IF b = 0 THEN a ELSE GCD(b, a % b)

\* s / n for n > 0, as the fraction <<numerator, denominator>> in lowest terms
Quotient(s, n) ==
    LET g == GCD(IF s < 0 THEN -s ELSE s, n)
    IN  << s \div g, n \div g >>

RECURSIVE SumParticles(_, _, _)
\* for particle_index in particle_indices: half += data[particle_index]
SumParticles(acc, data, particle_indices) ==
    IF particle_indices = <<>> THEN acc
    ELSE SumParticles([v \in DOMAIN acc |-> acc[v] + data[Head(particle_indices) + 1][v]],
                      data, Tail(particle_indices))

MeanCube_OffByOne(sum, count) ==
    IF count > 0
    THEN [v \in DOMAIN sum |-> Quotient(sum[v], count + 1)]
    ELSE [v \in DOMAIN sum |-> Quotient(sum[v], 1)]

\* half[h] / num[h] when num[h] > 0; the sums as they are otherwise
MeanCube(sum, count) ==
    IF count > 0
    THEN [v \in DOMAIN sum |-> Quotient(sum[v], count)]
    ELSE [v \in DOMAIN sum |-> Quotient(sum[v], 1)]

\* num_particles after "if num_particles is None or num_particles <= 0"
Requested(np, data) ==
    IF np.is_none THEN Len(data)
    ELSE IF np.value <= 0 THEN Len(data) ELSE np.value

(***************************************************************************)
(* Averaging: the initial states                                           *)
(***************************************************************************)
\* the half map an earlier call left in an output file
PriorMap == [v \in StoreVoxels |-> <<9, 1>>]

InitAverage ==
    /\ particle_size = 0
    /\ atoms = Atoms(0, 0, 0)
    /\ voxel_size = <<1, 1, 1>>
    /\ centre = <<0, 0, 0>>
    /\ positions = <<>>
    /\ orientations = <<>>
    /\ ExtractIdle
    /\ \E n \in 0..MaxStore, fill \in {"constant", "ramp"} :
          store = [k \in 1..n |-> StoreCube(k - 1, fill)]
    /\ num_particles \in {None} \cup { Given(n) : n \in -1..(MaxStore + 1) }
    /\ random_state = [r \in Procs |-> 0]
    /\ np_random_state \in [Procs -> 0..MaxEntropy]
    /\ apc = [r \in Procs |-> "open"]
    /\ aerror = [r \in Procs |-> "none"]
    /\ n_request = [r \in Procs |-> 0]
    /\ half_num_particles = [r \in Procs |-> 0]
    /\ indices = [r \in Procs |-> << <<>>, <<>> >>]
    /\ half = [r \in Procs |-> << <<>>, <<>> >>]
    /\ hnum = [r \in Procs |-> <<0, 0>>]
    /\ \E prior \in {NoFile, PriorMap} :
          /\ half1_file = [r \in Procs |-> prior]
          /\ half2_file = [r \in Procs |-> prior]

(***************************************************************************)
(* Averaging: the actions of process r                                     *)
(***************************************************************************)
\* assert half_num_particles > 0 fails
AverageRejectEmptyHalf(r) ==
    /\ apc[r] = "open"
    /\ LET n == Requested(num_particles, store)
       IN  /\ ~ (n \div 2 > 0)
           /\ n_request' = [n_request EXCEPT ![r] = n]
           /\ half_num_particles' = [half_num_particles EXCEPT ![r] = n \div 2]
    /\ apc' = [apc EXCEPT ![r] = "failed"]
    /\ aerror' = [aerror EXCEPT ![r] = "InsufficientParticles"]
    /\ UNCHANGED <<random_state, np_random_state, indices, half, hnum,
                   half1_file, half2_file>>
    /\ UNCHANGED <<extract_inputs, extract_vars, average_inputs>>

AverageRejectTooMany_AfterSave(r) ==
    /\ apc[r] = "open"
    /\ LET n == Requested(num_particles, store)
       IN  /\ n \div 2 > 0
           /\ ~ (n <= Len(store))
           /\ n_request' = [n_request EXCEPT ![r] = n]
           /\ half_num_particles' = [half_num_particles EXCEPT ![r] = n \div 2]
    /\ half1_file' = [half1_file EXCEPT ![r] = MeanCube(ZeroCube(StoreShape), 0)]
    /\ apc' = [apc EXCEPT ![r] = "failed"]
    /\ aerror' = [aerror EXCEPT ![r] = "TooManyParticles"]
    /\ UNCHANGED <<random_state, np_random_state, indices, half, hnum, half2_file>>
    /\ UNCHANGED <<extract_inputs, extract_vars, average_inputs>>

\* assert num_particles <= data.shape[0] fails
AverageRejectTooMany(r) ==
    /\ apc[r] = "open"
    /\ LET n == Requested(num_particles, store)
       IN  /\ n \div 2 > 0
           /\ ~ (n <= Len(store))
           /\ n_request' = [n_request EXCEPT ![r] = n]
           /\ half_num_particles' = [half_num_particles EXCEPT ![r] = n \div 2]
    /\ apc' = [apc EXCEPT ![r] = "failed"]
    /\ aerror' = [aerror EXCEPT ![r] = "TooManyParticles"]
    /\ UNCHANGED <<random_state, np_random_state, indices, half, hnum,
                   half1_file, half2_file>>
    /\ UNCHANGED <<extract_inputs, extract_vars, average_inputs>>

AverageAccept_NoSizeCheck(r) ==
    /\ apc[r] = "open"
    /\ LET n == Requested(num_particles, store)
       IN  /\ n \div 2 > 0
           /\ n_request' = [n_request EXCEPT ![r] = n]
           /\ half_num_particles' = [half_num_particles EXCEPT ![r] = n \div 2]
    /\ apc' = [apc EXCEPT ![r] = "select"]
    /\ UNCHANGED <<random_state, np_random_state, aerror, indices, half, hnum,
                   half1_file, half2_file>>
    /\ UNCHANGED <<extract_inputs, extract_vars, average_inputs>>

AverageAccept_NoHalfCheck(r) ==
    /\ apc[r] = "open"
    /\ LET n == Requested(num_particles, store)
       IN  /\ n <= Len(store)
           /\ n_request' = [n_request EXCEPT ![r] = n]
           /\ half_num_particles' = [half_num_particles EXCEPT ![r] = n \div 2]
    /\ apc' = [apc EXCEPT ![r] = "select"]
    /\ UNCHANGED <<random_state, np_random_state, aerror, indices, half, hnum,
                   half1_file, half2_file>>
    /\ UNCHANGED <<extract_inputs, extract_vars, average_inputs>>

\* both assertions pass
AverageAccept(r) ==
    /\ apc[r] = "open"
    /\ LET n == Requested(num_particles, store)
       IN  /\ n \div 2 > 0
           /\ n <= Len(store)
           /\ n_request' = [n_request EXCEPT ![r] = n]
           /\ half_num_particles' = [half_num_particles EXCEPT ![r] = n \div 2]
    /\ apc' = [apc EXCEPT ![r] = "select"]
    /\ UNCHANGED <<random_state, np_random_state, aerror, indices, half, hnum,
                   half1_file, half2_file>>
    /\ UNCHANGED <<extract_inputs, extract_vars, average_inputs>>

\* set up the arrays and draw the random indices of the two halves
AverageSelect(r) ==
    /\ apc[r] = "select"
    /\ half' = [half EXCEPT ![r] = << ZeroCube(StoreShape), ZeroCube(StoreShape) >>]
    /\ hnum' = [hnum EXCEPT ![r] = <<0, 0>>]
    /\ indices' = [indices EXCEPT ![r] =
                      SplitHalves(Choice(Len(store), n_request[r], np_random_state[r]),
                                  half_num_particles[r])]
    /\ np_random_state' = [np_random_state EXCEPT ![r] = @ + 1]
    /\ apc' = [apc EXCEPT ![r] = "sum"]
    /\ UNCHANGED <<random_state, aerror, n_request, half_num_particles,
                   half1_file, half2_file>>
    /\ UNCHANGED <<extract_inputs, extract_vars, average_inputs>>

\* sum the particles of each half, then divide each sum by its count
AverageSum(r) ==
    /\ apc[r] = "sum"
    /\ LET count == << hnum[r][1] + Len(indices[r][1]), hnum[r][2] + Len(indices[r][2]) >>
           sum == << SumParticles(half[r][1], store, indices[r][1]),
                     SumParticles(half[r][2], store, indices[r][2]) >>
       IN  /\ hnum' = [hnum EXCEPT ![r] = count]
           /\ half' = [half EXCEPT ![r] =
                          << MeanCube(sum[1], count[1]), MeanCube(sum[2], count[2]) >>]
    /\ apc' = [apc EXCEPT ![r] = "save1"]
    /\ UNCHANGED <<random_state, np_random_state, aerror, n_request,
                   half_num_particles, indices, half1_file, half2_file>>
    /\ UNCHANGED <<extract_inputs, extract_vars, average_inputs>>

\* mrcfile.new(half1_filename, overwrite=True); set_data(half[0])
AverageSave1(r) ==
    /\ apc[r] = "save1"
    /\ half1_file' = [half1_file EXCEPT ![r] = half[r][1]]
    /\ apc' = [apc EXCEPT ![r] = "save2"]
    /\ UNCHANGED <<random_state, np_random_state, aerror, n_request,
                   half_num_particles, indices, half, hnum, half2_file>>
    /\ UNCHANGED <<extract_inputs, extract_vars, average_inputs>>

\* mrcfile.new(half2_filename, overwrite=True); set_data(half[1])
AverageSave2(r) ==
    /\ apc[r] = "save2"
    /\ half2_file' = [half2_file EXCEPT ![r] = half[r][2]]
    /\ apc' = [apc EXCEPT ![r] = "done"]
    /\ UNCHANGED <<random_state, np_random_state, aerror, n_request,
                   half_num_particles, indices, half, hnum, half1_file>>
    /\ UNCHANGED <<extract_inputs, extract_vars, average_inputs>>

NextAverage ==
    \E r \in Procs :
        \/ AverageRejectEmptyHalf(r)
        \/ AverageRejectTooMany(r)
        \/ AverageAccept(r)
        \/ AverageSelect(r)
        \/ AverageSum(r)
        \/ AverageSave1(r)
        \/ AverageSave2(r)

SpecAverage == InitAverage /\ [][NextAverage]_vars

(***************************************************************************)
(* Properties of the extraction run                                        *)
(***************************************************************************)
\* the voxel centre of particle i of the sorted list
CentreOf(i) == VoxelCentre(positions[i], centre, Size(voxel_size), voxel_size)

AllTasksSucceeded == \A k \in 1..Len(results) : results[k].ok

\* C1: after an extraction run over P particles in which every task
\* succeeds, the particle store exists and holds exactly P cubes, for every
\* P >= 0.
C1_StoreHoldsEveryParticle ==
    (pc \in {"done", "failed"} /\ AllTasksSucceeded)
        => (file_created /\ Len(data_handle) = Len(positions))

\* C2: slot k of the store holds the cube of the k-th task to complete, and
\* when the run ends the (particle index, cube) pairs in the store are exactly
\* the pairs of the input particles, whatever the completion order was.
C2_CompletionOrderSameSet ==
    /\ Len(data_handle) <= Len(results)
    /\ \A k \in 1..Len(data_handle) : data_handle[k] = results[k].data
    /\ pc = "done" =>
          { <<results[k].index, data_handle[k]>> : k \in 1..Len(data_handle) }
              = { <<i, SubTomo(CentreOf(i), half_length)>> : i \in 1..Len(positions) }

\* a finished run of three or more particles whose completion order is not
\* the submission order
C2_Witness ==
    /\ pc = "done"
    /\ Len(data_handle) >= 3
    /\ \E k \in 1..(Len(results) - 1) : results[k].index > results[k + 1].index
    /\ data_handle[1] # data_handle[2]

\* C3: a failed task that reaches the coordinator aborts the run with the
\* task's error: it is the last result taken, nothing is appended for it or
\* after it, and a run that ends normally holds a cube for every particle.
C3_FailureAborts ==
    /\ \A k \in 1..taken :
          ~ results[k].ok =>
              /\ k = taken
              /\ pc = "failed"
              /\ error = results[k].error
              /\ Len(data_handle) = k - 1
    /\ pc = "done" => (AllTasksSucceeded /\ Len(data_handle) = Len(positions))

\* an aborted run that had stored a cube, with a later result finished but
\* never appended
C3_Witness ==
    /\ pc = "failed"
    /\ error = "OutOfBounds"
    /\ Len(data_handle) >= 1
    /\ Len(results) > taken
    /\ results[Len(results)].ok

\* C8: the half_length computed for the species is strictly positive for
\* every particle_size (explicit, or 0 for the atomic extent), so the cube
\* edge 2 * half_length is positive.
C8_HalfLengthPositive ==
    pc # "start" => (half_length > 0 /\ shape[1] > 0 /\ shape[1] = 2 * half_length)

StoreInvariant ==
    /\ \A k \in 1..Len(data_handle) : DOMAIN data_handle[k] = Voxels(shape[1])
    /\ shape = << 2 * half_length, 2 * half_length, 2 * half_length >>
    /\ Len(data_handle) <= Len(positions)
    /\ num = Len(data_handle)

\* a step that changes the store is the coordinator taking one result: the
\* store grows by one slot, the new slot is slot (previous length) and holds
\* that result's cube, the older slots are untouched; a worker finishing a
\* task (a step that extends results) never changes the store
StoreStep ==
    data_handle' # data_handle =>
        /\ taken' = taken + 1
        /\ results' = results
        /\ Len(data_handle') = Len(data_handle) + 1
        /\ SubSeq(data_handle', 1, Len(data_handle)) = data_handle
        /\ data_handle'[Len(data_handle) + 1] = results[taken + 1].data

\* C10: the store is mutated only by the coordinator, one result at a time,
\* each append growing it by exactly one slot at the previous length; every
\* stored cube has shape (L, L, L) and the store never holds more cubes than
\* there are submitted particles.
C10_SingleWriterStore == [] StoreInvariant /\ [][StoreStep]_vars

\* a store of two cubes of edge 2 while a third result waits for the
\* coordinator and another task is still running
C10_Witness ==
    /\ pc = "loop"
    /\ Len(data_handle) = 2
    /\ shape = <<2, 2, 2>>
    /\ Len(results) > taken
    /\ Len(results) < Len(positions)

(***************************************************************************)
(* Properties of averaging                                                 *)
(***************************************************************************)
Range(sq) == { sq[k] : k \in 1..Len(sq) }

\* process r has passed the two assertions and drawn its indices
Selected(r) == apc[r] \in {"sum", "save1", "save2", "done"}

\* C4: for a store of N cubes and an accepted num_particles = n, the n
\* selected indices are distinct members of [0, N); half 1 has n // 2 of
\* them and half 2 the other n - n // 2 (one more when n is odd); the halves
\* are disjoint.
C4_HalvesPartitionSelection ==
    \A r \in Procs :
        Selected(r) =>
            LET n == n_request[r]
                h1 == indices[r][1]
                h2 == indices[r][2]
            IN  /\ n = Requested(num_particles, store)
                /\ Len(h1) = n \div 2
                /\ Len(h2) = n - n \div 2
                /\ (n % 2 = 1) => Len(h2) = Len(h1) + 1
                /\ Range(h1) \cup Range(h2) \subseteq 0..(Len(store) - 1)
                /\ Cardinality(Range(h1)) = Len(h1)
                /\ Cardinality(Range(h2)) = Len(h2)
                /\ Range(h1) \cap Range(h2) = {}
                /\ Cardinality(Range(h1) \cup Range(h2)) = n

\* an odd selection out of a larger store: 3 of 4 cubes, split 1 and 2
C4_Witness ==
    /\ Len(store) = 4
    /\ Selected(1)
    /\ n_request[1] = 3
    /\ Len(indices[1][1]) = 1
    /\ Len(indices[1][2]) = 2

\* C5: a request with num_particles // 2 = 0 (after defaulting to the store
\* length) is never accepted: the call fails there with the insufficient-
\* particles assertion, so no call gets past it with an empty half 1.
C5_EmptyHalfRejected ==
    \A r \in Procs :
        /\ (Requested(num_particles, store) \div 2 = 0)
              => /\ apc[r] \in {"open", "failed"}
                 /\ apc[r] = "failed" => aerror[r] = "InsufficientParticles"
        /\ apc[r] \notin {"open", "failed"} => half_num_particles[r] > 0
        /\ Selected(r) => Len(indices[r][1]) > 0
        /\ apc[r] = "done" => hnum[r][1] > 0

\* num_particles = 1 on a store of three cubes, rejected
C5_Witness ==
    /\ num_particles = Given(1)
    /\ Len(store) = 3
    /\ apc[1] = "failed"
    /\ aerror[1] = "InsufficientParticles"
    /\ half1_file[1] = NoFile

\* C6: two runs of averaging with the same seed on the same store select
\* the same indices for each half and write identical half maps.
C6_Deterministic ==
    (/\ apc[1] = "done"
     /\ apc[2] = "done"
     /\ random_state[1] = random_state[2])
        => /\ indices[1] = indices[2]
           /\ half1_file[1] = half1_file[2]
           /\ half2_file[1] = half2_file[2]

RECURSIVE SumOver(_, _)
\* the sum over the store indices in S of voxel v
SumOver(S, v) ==
    IF S = {} THEN 0
    ELSE LET i == CHOOSE j \in S : TRUE
         IN  store[i + 1][v] + SumOver(S \ {i}, v)

\* whether every voxel of cube c holds the same value
IsConstant(c) == \A v, w \in DOMAIN c : c[v] = c[w]

\* map m, a cube of fractions in lowest terms, is the mean of the cubes in S
IsMeanOf(m, S) ==
    /\ DOMAIN m = StoreVoxels
    /\ \A v \in StoreVoxels :
          /\ m[v][2] > 0
          /\ GCD(m[v][1], m[v][2]) = 1
          /\ m[v][1] * Cardinality(S) = m[v][2] * SumOver(S, v)

\* C7: each half map written is the elementwise sum of exactly the stored
\* cubes assigned to that half, divided by the number of members of that
\* half; for constant cubes v_i it is the mean of the v_i of that half.
C7_HalfMapIsMean ==
    \A r \in Procs :
        /\ apc[r] \in {"save2", "done"} =>
              /\ hnum[r][1] = Cardinality(Range(indices[r][1]))
              /\ IsMeanOf(half1_file[r], Range(indices[r][1]))
        /\ apc[r] = "done" =>
              /\ hnum[r][2] = Cardinality(Range(indices[r][2]))
              /\ IsMeanOf(half2_file[r], Range(indices[r][2]))
              /\ (\A k \in 1..Len(store) : IsConstant(store[k]))
                    => IsConstant(half1_file[r]) /\ IsConstant(half2_file[r])

\* a finished call over 3 of 4 cubes whose half 2 averages two cubes to a
\* value that is not a whole number
C7_Witness ==
    /\ apc[1] = "done"
    /\ Len(store) = 4
    /\ Len(indices[1][1]) = 1
    /\ Len(indices[1][2]) = 2
    /\ \E v \in StoreVoxels : half2_file[1][v][2] = 2

\* num_particles was not given: None, or an integer that is not positive
\* (0 is the argument's default)
NotGiven == num_particles.is_none \/ num_particles.value <= 0

\* process r has passed the two assertions
Accepted(r) == apc[r] \notin {"open", "failed"}

\* C11: num_particles defaults to the store length N when not given; an
\* accepted request satisfies 1 <= num_particles <= N; a request with
\* num_particles > N is never accepted and fails with an error; no index
\* outside [0, N) is selected for reading from the store.
C11_RequestWithinStore ==
    \A r \in Procs :
        /\ (apc[r] # "open" /\ NotGiven) => n_request[r] = Len(store)
        /\ (apc[r] # "open" /\ ~ NotGiven) => n_request[r] = num_particles.value
        /\ Accepted(r) => (1 <= n_request[r] /\ n_request[r] <= Len(store))
        /\ (~ NotGiven /\ num_particles.value > Len(store))
              => /\ ~ Accepted(r)
                 /\ apc[r] = "failed" => aerror[r] # "none"
        /\ \A h \in 1..2 : \A k \in 1..Len(indices[r][h]) :
              0 <= indices[r][h][k] /\ indices[r][h][k] < Len(store)

\* a request for 4 particles on a store of 3, rejected, while the other
\* process has not started
C11_Witness ==
    /\ num_particles = Given(4)
    /\ Len(store) = 3
    /\ apc[1] = "failed"
    /\ aerror[1] = "TooManyParticles"
    /\ apc[2] = "open"

\* a defaulted request on a store of 4 cubes reads 4 distinct slots
C11_DefaultWitness ==
    /\ NotGiven
    /\ Len(store) = 4
    /\ apc[1] = "done"
    /\ n_request[1] = 4

\* a call that failed left both output files as they were before it: both
\* absent, or both still holding the earlier half maps
FailedLeavesOutputs ==
    \A r \in Procs :
        apc[r] = "failed" =>
            /\ half1_file[r] = half2_file[r]
            /\ half1_file[r] \in {NoFile, PriorMap}

\* no step changes the particle store or the request; a step of process r
\* changes an output file only when it is one of the two saves of an accepted
\* call, and each save changes only its own file
AverageFrame ==
    /\ store' = store
    /\ num_particles' = num_particles
    /\ \A r \in Procs :
          /\ half1_file'[r] # half1_file[r]
                => (apc[r] = "save1" /\ apc'[r] = "save2" /\ half2_file'[r] = half2_file[r])
          /\ half2_file'[r] # half2_file[r]
                => (apc[r] = "save2" /\ apc'[r] = "done" /\ half1_file'[r] = half1_file[r])
          /\ apc'[r] = "failed"
                => (half1_file'[r] = half1_file[r] /\ half2_file'[r] = half2_file[r])

\* C12: a call that rejects its input (empty half, or num_particles > N)
\* fails before either half-map file is created or overwritten, so it never
\* leaves only one of the two written; averaging never modifies the particle
\* store.
C12_RejectWritesNothing == [] FailedLeavesOutputs /\ [][AverageFrame]_vars

\* process 1 rejected a request larger than a store of two cubes, and the
\* half maps an earlier call wrote are intact
C12_Witness ==
    /\ apc[1] = "failed"
    /\ aerror[1] = "TooManyParticles"
    /\ half1_file[1] = PriorMap
    /\ half2_file[1] = PriorMap
    /\ Len(store) = 2

====
